---- MODULE Spec2Model ----
(***************************************************************************)
(* Model of the two Ansible modules of the Grafana collection:             *)
(*   plugins/modules/alert_contact_point.py  (contact points, by uid)      *)
(*   plugins/modules/cloud_api_key.py        (Cloud API keys, by name)     *)
(* One invocation of a module runs main(), which calls the reconciler of   *)
(* the requested state.  A reconciler sends HTTP requests one after the    *)
(* other; every request is one step of the model, because the remote side  *)
(* may change between two requests of the same invocation.  The remote     *)
(* API is the environment: it holds the listing of contact points and the  *)
(* set of keys, accepts a request only when it can be applied, and may     *)
(* answer any request with a failure status.                               *)
(* The `requests` package is taken to be installed (requirements of both   *)
(* modules); stack_slug, org_slug and the API keys only select the host    *)
(* and the Authorization header and are left out of the parameters.        *)
(***************************************************************************)
EXTENDS Integers, Sequences, FiniteSets

\* ------------------------------------------------------------------------
\* Bounds and value domains
\* ------------------------------------------------------------------------
MaxCps == 2

Uids == {"opsemail", "ghost", "pager"}
CpNames == {"ops-email", "dev-email"}
CpType == "email"
CpSettings == "addresses"
KeyNames == {"key1", "key2"}
Roles == {"Admin", "Viewer"}
States == {"present", "absent"}

\* failure statuses the remote API may answer to any request
FailStatuses == {404, 500}
\* shape of the JSON body of a failure answer:
\*   "message" : an object with a `message` field
\*   "other"   : a non-empty object without a `message` field
\*   "empty"   : the empty object {}
ErrBodies == {"message", "other", "empty"}

NoEntry == [uid |-> "", name |-> "", type |-> "", settings |-> "",
            disableResolveMessage |-> FALSE]
NoKey == [name |-> "", role |-> ""]

\* JSON values received from the remote API
JsonEntry(e) == [kind |-> "entry", entry |-> e, list |-> << >>, key |-> NoKey, message |-> ""]
JsonList(l) == [kind |-> "list", entry |-> NoEntry, list |-> l, key |-> NoKey, message |-> ""]
JsonKey(k) == [kind |-> "key", entry |-> NoEntry, list |-> << >>, key |-> k, message |-> ""]
JsonMessage(m) == [kind |-> "message", entry |-> NoEntry, list |-> << >>, key |-> NoKey, message |-> m]
JsonOther == [kind |-> "other", entry |-> NoEntry, list |-> << >>, key |-> NoKey, message |-> ""]
JsonEmpty == [kind |-> "empty", entry |-> NoEntry, list |-> << >>, key |-> NoKey, message |-> ""]
NoJson == [kind |-> "none", entry |-> NoEntry, list |-> << >>, key |-> NoKey, message |-> ""]

ServerMessage(status) ==
    CASE status = 404 -> "not found"
      [] status = 409 -> "name already in use"
      [] OTHER -> "internal server error"

ErrJson(status, b) ==
    CASE b = "message" -> JsonMessage(ServerMessage(status))
      [] b = "other" -> JsonOther
      [] OTHER -> JsonEmpty

Response(status, json) == [status |-> status, json |-> json]

\* ------------------------------------------------------------------------
\* State
\* ------------------------------------------------------------------------
VARIABLES
    cps,      \* remote: the listing of contact points of the stack (a sequence)
    keys,     \* remote: the Cloud API keys of the organization, name -> role or ""
    pc,       \* position of the running invocation
    params,   \* module.params of the running (or last) invocation
    log,      \* the requests the invocation has sent, with the answers
    outcome,  \* what the reconciler returned: is_error, has_changed, result
    report,   \* what main() told the host: exit_json or fail_json
    rerun     \* history: the running invocation has the parameters of the
              \* invocation before it, and that one returned has_changed = True

vars == <<cps, keys, pc, params, log, outcome, report, rerun>>

\* ------------------------------------------------------------------------
\* Payloads and outcomes
\* ------------------------------------------------------------------------
PayloadJson(j) == [kind |-> "json", json |-> j, text |-> "", status |-> 0]
PayloadText(t) == [kind |-> "text", json |-> NoJson, text |-> t, status |-> 0]
NoPayload == [kind |-> "none", json |-> NoJson, text |-> "", status |-> 0]

\* {"status": result.status_code, 'response': result.json()['message']}
StatusError(r) == [kind |-> "status", json |-> NoJson, text |-> r.json.message, status |-> r.status]

\* result.json()['message'] raises KeyError when the object has no such field
HasMessage(r) == r.json.kind = "message"

\* ended: "none" (running), "returned" (a tuple was returned), "raised" (an
\* exception left the reconciler, no tuple was returned)
Returned(e, c, p) == [ended |-> "returned", is_error |-> e, has_changed |-> c, result |-> p]
Raised == [ended |-> "raised", is_error |-> FALSE, has_changed |-> FALSE, result |-> NoPayload]
Running == [ended |-> "none", is_error |-> FALSE, has_changed |-> FALSE, result |-> NoPayload]

NoReport == [via |-> "none", changed |-> FALSE, data |-> NoPayload]

\* (variant: the test `if not is_error` is inverted)
main_report_inverted(o) ==
    IF o.ended = "raised" THEN [via |-> "exception", changed |-> FALSE, data |-> NoPayload]
    ELSE IF o.is_error THEN [via |-> "exit_json", changed |-> o.has_changed, data |-> o.result]
    ELSE [via |-> "fail_json", changed |-> FALSE, data |-> o.result]

\* main(), after the reconciler: exit_json(changed=has_changed, output=result)
\* or fail_json(msg=result); an exception leaves main() without either.
main_report(o) ==
    IF o.ended = "raised" THEN [via |-> "exception", changed |-> FALSE, data |-> NoPayload]
    ELSE IF ~o.is_error THEN [via |-> "exit_json", changed |-> o.has_changed, data |-> o.result]
    ELSE [via |-> "fail_json", changed |-> FALSE, data |-> o.result]

\* ------------------------------------------------------------------------
\* Contact points: request construction and the remote API
\* ------------------------------------------------------------------------
CpParams == [module : {"alert_contact_point"}, name : CpNames, uid : Uids,
             type : {CpType}, settings : {CpSettings},
             disableResolveMessage : {FALSE}, state : States]

\* body = {'Name': .., 'UID': .., 'type': .., 'settings': .., 'DisableResolveMessage': ..}
Body(p) == [Name |-> p.name, UID |-> p.uid, type |-> p.type, settings |-> p.settings,
            DisableResolveMessage |-> p.disableResolveMessage]

\* (variant: the URL is built from the name)
UidUrl_name(p) == p.name

\* .../contact-points/ + module.params['uid']  (PUT and DELETE)
UidUrl(p) == p.uid

\* the entry the remote API stores for a request body
EntryOf(b) == [uid |-> b.UID, name |-> b.Name, type |-> b.type, settings |-> b.settings,
               disableResolveMessage |-> b.DisableResolveMessage]

HasUid(l, u) == \E i \in 1..Len(l) : l[i].uid = u
CountUid(l, u) == Cardinality({i \in 1..Len(l) : l[i].uid = u})

RECURSIVE RemoveUid(_, _)
RemoveUid(l, u) ==
    IF l = << >> THEN << >>
    ELSE IF Head(l).uid = u THEN RemoveUid(Tail(l), u)
    ELSE <<Head(l)>> \o RemoveUid(Tail(l), u)

ReplaceUid(l, u, e) == [i \in 1..Len(l) |-> IF l[i].uid = u THEN e ELSE l[i]]

Failures == {Response(s, ErrJson(s, b)) : s \in FailStatuses, b \in ErrBodies}

\* one request of the invocation with the answer it got
Req(verb, target, r) == [verb |-> verb, target |-> target, status |-> r.status, json |-> r.json]


\* ------------------------------------------------------------------------
\* Contact points: the reconcilers' branches on an answer
\* ------------------------------------------------------------------------
Continue(next) == [next |-> next, out |-> Running]
Done(o) == [next |-> "done", out |-> o]

\* `return True, False, {"status": .., 'response': result.json()['message']}`
\* returns the tuple, or raises KeyError while building it
ErrorReturn(r) == IF HasMessage(r) THEN Returned(TRUE, FALSE, StatusError(r)) ELSE Raised

\* `for contact_points in result.json(): if contact_points['uid'] == uid`
\* over a list of entries; over an object the loop variable is a key (a
\* string) and indexing it with 'uid' raises TypeError; over {} the loop
\* body never runs.
ScanRaises(j) == j.kind \in {"message", "other"}
ScanFound(j, uid) == j.kind = "list" /\ HasUid(j.list, uid)
\* the loop variable after the loop: the last element iterated
LoopVariable(j) == j.list[Len(j.list)]

\* (variant: 200 is taken for the accepted status of the create)
present_post_branch_200(p, r) ==
    IF r.status = 200 THEN Done(Returned(FALSE, TRUE, PayloadJson(r.json)))
    ELSE IF r.status = 500 THEN Continue("cp_put")
    ELSE Done(ErrorReturn(r))

\* present_alert_contact_point, after requests.post
present_post_branch(p, r) ==
    IF r.status = 202 THEN Done(Returned(FALSE, TRUE, PayloadJson(r.json)))
    ELSE IF r.status = 500 THEN Continue("cp_put")
    ELSE Done(ErrorReturn(r))

\* present_alert_contact_point, after requests.put
present_put_branch(p, r) ==
    IF r.status = 202 THEN Continue("cp_get")
    ELSE Done(ErrorReturn(r))

\* present_alert_contact_point, after requests.get: the status is not looked at
present_get_branch(p, r) ==
    IF ScanRaises(r.json) THEN Done(Raised)
    ELSE IF ScanFound(r.json, p.uid)
         THEN Done(Returned(FALSE, TRUE, PayloadJson(JsonEntry(LoopVariable(r.json)))))
         ELSE Done(Returned(TRUE, FALSE, PayloadText("Contact Point not found")))

\* (variant: an absent target is a no-op instead of an error)
absent_get_branch_noop(p, r) ==
    IF ScanRaises(r.json) THEN Done(Raised)
    ELSE IF ScanFound(r.json, p.uid) THEN Continue("cp_delete")
    ELSE Done(Returned(FALSE, FALSE, PayloadText("Alert Contact point does not exist")))

\* absent_alert_contact_point, after requests.get: the status is not looked at
absent_get_branch(p, r) ==
    IF ScanRaises(r.json) THEN Done(Raised)
    ELSE IF ScanFound(r.json, p.uid) THEN Continue("cp_delete")
    ELSE Done(Returned(TRUE, FALSE, PayloadText("Alert Contact point does not exist")))

\* (variant: the accepted delete is returned with has_changed = False)
absent_delete_branch_unchanged(p, r) ==
    IF r.status = 202 THEN Done(Returned(FALSE, FALSE, PayloadJson(r.json)))
    ELSE Done(ErrorReturn(r))

\* absent_alert_contact_point, after requests.delete
absent_delete_branch(p, r) ==
    IF r.status = 202 THEN Done(Returned(FALSE, TRUE, PayloadJson(r.json)))
    ELSE Done(ErrorReturn(r))

\* ------------------------------------------------------------------------
\* Cloud API keys
\* ------------------------------------------------------------------------
KeyParams == [module : {"cloud_api_key"}, name : KeyNames, role : Roles,
              fail_if_already_created : BOOLEAN, state : States]

\* body = {'name': .., 'role': ..}
KeyBody(p) == [name |-> p.name, role |-> p.role]

\* .../api-keys/ + module.params['name']  (DELETE)
NameUrl(p) == p.name

\* (variant: the conflict always fails, fail_if_already_created is ignored)
present_cloud_api_key_strict(p, r) ==
    IF r.status = 200 THEN Done(Returned(FALSE, TRUE, PayloadJson(r.json)))
    ELSE IF r.status = 409
         THEN Done(Returned(TRUE, FALSE,
                            PayloadText("A Cloud API key with the same name already exists")))
    ELSE Done(ErrorReturn(r))

\* present_cloud_api_key, after requests.post
present_cloud_api_key(p, r) ==
    IF r.status = 200 THEN Done(Returned(FALSE, TRUE, PayloadJson(r.json)))
    ELSE IF r.status = 409
         THEN Done(Returned(p.fail_if_already_created, FALSE,
                            PayloadText("A Cloud API key with the same name already exists")))
    ELSE Done(ErrorReturn(r))

\* absent_cloud_api_key, after requests.delete
absent_cloud_api_key(p, r) ==
    IF r.status = 200 THEN Done(Returned(FALSE, TRUE, PayloadText("Cloud API key is deleted")))
    ELSE Done(ErrorReturn(r))

KeyConflicts == {Response(409, ErrJson(409, b)) : b \in ErrBodies}

\* ------------------------------------------------------------------------
\* main(): dispatch on module.params['state']
\* ------------------------------------------------------------------------
choice_map(p) ==
    IF p.module = "alert_contact_point"
    THEN (IF p.state = "present" THEN "cp_post" ELSE "cp_list")
    ELSE (IF p.state = "present" THEN "key_post" ELSE "key_delete")

NoParams == [module |-> "none"]
IsRerun(p, q, o) == p = q /\ o.ended = "returned" /\ o.has_changed

Init ==
    /\ cps = << >>
    /\ keys = [n \in KeyNames |-> ""]
    /\ pc = "idle"
    /\ params = NoParams
    /\ log = << >>
    /\ outcome = Running
    /\ report = NoReport
    /\ rerun = FALSE

\* a module is started: main() parses the parameters and calls the reconciler
Start(p) ==
    /\ pc \in {"idle", "done"}
    /\ params' = p
    /\ pc' = choice_map(p)
    /\ log' = << >>
    /\ outcome' = Running
    /\ report' = NoReport
    /\ rerun' = IsRerun(p, params, outcome)
    /\ UNCHANGED <<cps, keys>>

main_alert_contact_point == \E p \in CpParams : Start(p)
main_cloud_api_key == \E p \in KeyParams : Start(p)

\* the reconciler goes on to its next request, or returns to main(), which
\* reports the outcome to the host
Step(x, req) ==
    /\ pc' = x.next
    /\ outcome' = x.out
    /\ log' = Append(log, req)
    /\ report' = IF x.next = "done" THEN main_report(x.out) ELSE report
    /\ UNCHANGED <<params, rerun>>

\* requests.post(.../contact-points, json=body)
present_alert_contact_point_post ==
    /\ pc = "cp_post"
    /\ LET b == Body(params) IN
       \/ /\ ~HasUid(cps, b.UID)
          /\ Len(cps) < MaxCps
          /\ cps' = Append(cps, EntryOf(b))
          /\ Step(present_post_branch(params, Response(202, JsonEntry(EntryOf(b)))),
                  Req("POST", "", Response(202, JsonEntry(EntryOf(b)))))
       \/ \E r \in Failures :
             /\ cps' = cps
             /\ Step(present_post_branch(params, r), Req("POST", "", r))
    /\ UNCHANGED keys

\* requests.put(.../contact-points/<uid>, json=body)
present_alert_contact_point_put ==
    /\ pc = "cp_put"
    /\ LET b == Body(params)
           u == UidUrl(params) IN
       \/ /\ HasUid(cps, u)
          /\ cps' = ReplaceUid(cps, u, [EntryOf(b) EXCEPT !.uid = u])
          /\ Step(present_put_branch(params, Response(202, JsonMessage("contact point updated"))),
                  Req("PUT", u, Response(202, JsonMessage("contact point updated"))))
       \/ \E r \in Failures :
             /\ cps' = cps
             /\ Step(present_put_branch(params, r), Req("PUT", u, r))
    /\ UNCHANGED keys

\* requests.get(.../contact-points) after the update
present_alert_contact_point_get ==
    /\ pc = "cp_get"
    /\ \E r \in {Response(200, JsonList(cps))} \cup Failures :
          Step(present_get_branch(params, r), Req("GET", "", r))
    /\ UNCHANGED <<cps, keys>>

\* requests.get(.../contact-points) before the delete
absent_alert_contact_point_get ==
    /\ pc = "cp_list"
    /\ \E r \in {Response(200, JsonList(cps))} \cup Failures :
          Step(absent_get_branch(params, r), Req("GET", "", r))
    /\ UNCHANGED <<cps, keys>>

\* requests.delete(.../contact-points/<uid>)
absent_alert_contact_point_delete ==
    /\ pc = "cp_delete"
    /\ LET u == UidUrl(params) IN
       \/ /\ HasUid(cps, u)
          /\ cps' = RemoveUid(cps, u)
          /\ Step(absent_delete_branch(params, Response(202, JsonMessage("contact point deleted"))),
                  Req("DELETE", u, Response(202, JsonMessage("contact point deleted"))))
       \/ \E r \in Failures :
             /\ cps' = cps
             /\ Step(absent_delete_branch(params, r), Req("DELETE", u, r))
    /\ UNCHANGED keys

\* another client of the same stack removes a contact point
OtherClientDelete ==
    /\ \E u \in Uids :
          /\ HasUid(cps, u)
          /\ cps' = RemoveUid(cps, u)
    /\ UNCHANGED <<keys, pc, params, log, outcome, report, rerun>>

\* requests.post(.../api-keys, json=body)
present_cloud_api_key_post ==
    /\ pc = "key_post"
    /\ LET b == KeyBody(params) IN
       \/ /\ keys[b.name] = ""
          /\ keys' = [keys EXCEPT ![b.name] = b.role]
          /\ Step(present_cloud_api_key(params, Response(200, JsonKey(b))),
                  Req("POST", "", Response(200, JsonKey(b))))
       \/ \E r \in Failures \cup (IF keys[b.name] # "" THEN KeyConflicts ELSE {}) :
             /\ keys' = keys
             /\ Step(present_cloud_api_key(params, r), Req("POST", "", r))
    /\ UNCHANGED cps

\* requests.delete(.../api-keys/<name>)
absent_cloud_api_key_delete ==
    /\ pc = "key_delete"
    /\ LET n == NameUrl(params) IN
       \/ /\ keys[n] # ""
          /\ keys' = [keys EXCEPT ![n] = ""]
          /\ Step(absent_cloud_api_key(params, Response(200, JsonMessage("deleted"))),
                  Req("DELETE", n, Response(200, JsonMessage("deleted"))))
       \/ \E r \in Failures :
             /\ keys' = keys
             /\ Step(absent_cloud_api_key(params, r), Req("DELETE", n, r))
    /\ UNCHANGED cps

NextCP ==
    \/ main_alert_contact_point
    \/ present_alert_contact_point_post
    \/ present_alert_contact_point_put
    \/ present_alert_contact_point_get
    \/ absent_alert_contact_point_get
    \/ absent_alert_contact_point_delete
    \/ OtherClientDelete

NextKey ==
    \/ main_cloud_api_key
    \/ present_cloud_api_key_post
    \/ absent_cloud_api_key_delete

Next == NextCP \/ NextKey

Spec == Init /\ [][Next]_vars
SpecCP == Init /\ [][NextCP]_vars
SpecKey == Init /\ [][NextKey]_vars

TypeOK == pc \in {"idle", "cp_post", "cp_put", "cp_get", "cp_list", "cp_delete",
                  "key_post", "key_delete", "done"}


\* ------------------------------------------------------------------------
\* Vocabulary of the properties
\* ------------------------------------------------------------------------
IsCp == params.module = "alert_contact_point"
IsKey == params.module = "cloud_api_key"
CpPresent == IsCp /\ params.state = "present"
CpAbsent == IsCp /\ params.state = "absent"
KeyPresent == IsKey /\ params.state = "present"
KeyAbsent == IsKey /\ params.state = "absent"
Finished == pc = "done"
ReturnedIs(e, c) == outcome.ended = "returned" /\ outcome.is_error = e /\ outcome.has_changed = c
LastReq == log[Len(log)]
Verbs == [i \in 1..Len(log) |-> log[i].verb]
Mutating(q) == q.verb \in {"POST", "PUT", "DELETE"}
Accepted(q) == q.status \in {200, 202}

\* C1: present on a stack without the uid: the one POST, accepted with 202,
\* ends the invocation with (False, True, <the server's answer>), reported by
\* exit_json(changed=True), and the listing then holds an entry with the uid;
\* an entry leaves the listing only by a delete.
C1_CreateStep ==
    (pc = "cp_post" /\ pc' = "done" /\ log'[1].status = 202) =>
        /\ ~HasUid(cps, params.uid)
        /\ Verbs' = <<"POST">>
        /\ outcome' = Returned(FALSE, TRUE, PayloadJson(log'[1].json))
        /\ report' = [via |-> "exit_json", changed |-> TRUE, data |-> PayloadJson(log'[1].json)]
        /\ HasUid(cps', params.uid)
C1_OnlyDeleteRemoves ==
    \A u \in Uids : (HasUid(cps, u) /\ ~HasUid(cps', u)) =>
        \/ pc = "cp_delete" /\ params.uid = u /\ LastReq'.verb = "DELETE" /\ LastReq'.status = 202
        \/ UNCHANGED <<pc, params, log, outcome, report, rerun>>
C1_Create == [][C1_CreateStep /\ C1_OnlyDeleteRemoves]_vars
C1_Witness ==
    /\ Finished /\ CpPresent /\ Verbs = <<"POST">> /\ log[1].status = 202
    /\ ReturnedIs(FALSE, TRUE) /\ HasUid(cps, params.uid)


\* the step sends a request (and gets its answer)
Sent == Len(log') = Len(log) + 1
ListingHas(q, u) == q.verb = "GET" /\ q.status = 200 /\ q.json.kind = "list" /\ HasUid(q.json.list, u)
ListingLacks(q, u) == q.verb = "GET" /\ q.status = 200 /\ q.json.kind = "list" /\ ~HasUid(q.json.list, u)

\* C2: present when the uid exists: the listing never holds two entries with
\* one uid; the POST is rejected and leaves the listing alone; a POST
\* answered 500 is followed by a PUT addressed by the uid; an accepted PUT
\* rewrites the entry where it stands; when the re-fetched listing holds the
\* uid the outcome is (False, True, ..); and every present invocation that
\* ends with has_changed = True, a repeated one included, leaves exactly one
\* entry with the uid.
C2_NoDuplicate == \A u \in Uids : CountUid(cps, u) <= 1
C2_Step ==
    /\ (pc = "cp_post" /\ Sent /\ HasUid(cps, params.uid)) =>
           (LastReq'.verb = "POST" /\ LastReq'.status # 202 /\ cps' = cps)
    /\ (pc = "cp_post" /\ Sent /\ LastReq'.status = 500) => pc' = "cp_put"
    /\ (pc = "cp_put" /\ Sent) => (LastReq'.verb = "PUT" /\ LastReq'.target = params.uid)
    /\ (pc = "cp_put" /\ Sent /\ LastReq'.status = 202) =>
           /\ Len(cps') = Len(cps)
           /\ \A i \in 1..Len(cps) :
                 cps'[i] = IF cps[i].uid = params.uid
                           THEN [uid |-> params.uid, name |-> params.name, type |-> params.type,
                                 settings |-> params.settings,
                                 disableResolveMessage |-> params.disableResolveMessage]
                           ELSE cps[i]
           /\ pc' = "cp_get"
    /\ (pc = "cp_get" /\ Sent /\ ListingHas(LastReq', params.uid)) =>
           (pc' = "done" /\ ReturnedIs(FALSE, TRUE)'
            /\ report'.via = "exit_json" /\ report'.changed)
    /\ (CpPresent /\ pc # "done" /\ pc' = "done" /\ outcome'.ended = "returned"
        /\ outcome'.has_changed) => CountUid(cps', params.uid) = 1
C2_Idempotent == []C2_NoDuplicate /\ [][C2_Step]_vars
C2_Witness ==
    /\ Finished /\ CpPresent /\ rerun
    /\ Verbs = <<"POST", "PUT", "GET">>
    /\ log[1].status = 500 /\ log[2].status = 202 /\ log[2].target = params.uid
    /\ ReturnedIs(FALSE, TRUE)
    /\ CountUid(cps, params.uid) = 1 /\ Len(cps) = 2

\* C3: update path, PUT accepted and the re-fetched listing holds an entry
\* with the uid: the payload returned with has_changed = True is an entry
\* whose uid is the uid of the parameters.
C3_PayloadHasUid ==
    (Finished /\ CpPresent /\ Len(log) = 3 /\ log[2].status = 202
     /\ ListingHas(log[3], params.uid)) =>
        /\ ReturnedIs(FALSE, TRUE)
        /\ outcome.result.kind = "json"
        /\ outcome.result.json.kind = "entry"
        /\ outcome.result.json.entry.uid = params.uid

\* C4: absent: a listing that holds the uid is followed by a DELETE addressed
\* by the uid; an accepted DELETE ends the invocation with (False, True, ..)
\* and the uid is gone from the listing; an absent invocation whose listing
\* lacks the uid, and the same invocation run again after it reported a
\* change, returns (True, False, "Alert Contact point does not exist") after
\* the GET alone.
DoesNotExist == Returned(TRUE, FALSE, PayloadText("Alert Contact point does not exist"))
C4_Step ==
    /\ (pc = "cp_list" /\ Sent /\ ListingHas(LastReq', params.uid)) => pc' = "cp_delete"
    /\ (pc = "cp_delete" /\ Sent) =>
           (LastReq'.verb = "DELETE" /\ LastReq'.target = params.uid
            /\ ListingHas(log[1], params.uid))
    /\ (pc = "cp_delete" /\ Sent /\ LastReq'.status = 202) =>
           /\ pc' = "done" /\ ReturnedIs(FALSE, TRUE)'
           /\ report'.via = "exit_json" /\ report'.changed
           /\ ~HasUid(cps', params.uid)
C4_NotThere ==
    /\ (Finished /\ CpAbsent /\ ListingLacks(log[1], params.uid)) =>
           (outcome = DoesNotExist /\ report.via = "fail_json" /\ Verbs = <<"GET">>)
    /\ (Finished /\ CpAbsent /\ rerun /\ log[1].status = 200) =>
           (outcome = DoesNotExist /\ report.via = "fail_json" /\ Verbs = <<"GET">>)
C4_Absent == []C4_NotThere /\ [][C4_Step]_vars
C4_Witness ==
    /\ Finished /\ CpAbsent /\ rerun /\ log[1].status = 200
    /\ outcome = DoesNotExist /\ Verbs = <<"GET">>


\* C5: Cloud API key, present: a POST answered 200 ends with (False, True,
\* <the server's answer>) and the key is stored; a POST answered 409 ends the
\* invocation at once with has_changed = False and is_error equal to
\* fail_if_already_created, and the keys stay as they were; running the same
\* task again after it reported a change never creates again, and with
\* fail_if_already_created = False the 409 gives (False, False, ..).
C5_Step ==
    /\ (pc = "key_post" /\ Sent /\ LastReq'.status = 200) =>
           /\ outcome' = Returned(FALSE, TRUE, PayloadJson(LastReq'.json))
           /\ report' = [via |-> "exit_json", changed |-> TRUE, data |-> PayloadJson(LastReq'.json)]
           /\ keys[params.name] = "" /\ keys'[params.name] = params.role
    /\ (pc = "key_post" /\ Sent /\ LastReq'.status = 409) =>
           /\ pc' = "done" /\ Verbs' = <<"POST">>
           /\ outcome'.ended = "returned"
           /\ outcome'.has_changed = FALSE
           /\ outcome'.is_error = params.fail_if_already_created
           /\ keys' = keys
C5_Twice ==
    (Finished /\ KeyPresent /\ rerun) =>
        /\ log[1].status # 200
        /\ ~(outcome.ended = "returned" /\ outcome.has_changed)
        /\ (log[1].status = 409 /\ ~params.fail_if_already_created) =>
               (ReturnedIs(FALSE, FALSE) /\ report.via = "exit_json" /\ ~report.changed)
C5_Present == []C5_Twice /\ [][C5_Step]_vars
C5_Witness ==
    /\ Finished /\ KeyPresent /\ rerun /\ ~params.fail_if_already_created
    /\ log[1].status = 409 /\ ReturnedIs(FALSE, FALSE)
    /\ keys[params.name] = params.role

\* C6: Cloud API key, absent: the invocation sends the one DELETE addressed by
\* the name; 200 gives (False, True, ..), every other status (True, False, ..);
\* the same task run again after it reported a change gives (True, False, ..).
C6_Delete ==
    (Finished /\ KeyAbsent) =>
        /\ Verbs = <<"DELETE">>
        /\ log[1].target = params.name
        /\ (log[1].status = 200) => ReturnedIs(FALSE, TRUE)
        /\ (log[1].status # 200) => ReturnedIs(TRUE, FALSE)
        /\ rerun => ReturnedIs(TRUE, FALSE)

\* C7: no returned outcome has is_error and has_changed both True; main()
\* passes an errored outcome to fail_json and any other to exit_json with the
\* has_changed flag.
C7_NeverBoth ==
    /\ ~(outcome.is_error /\ outcome.has_changed)
    /\ (Finished /\ outcome.ended = "returned") =>
           IF outcome.is_error
           THEN report.via = "fail_json" /\ report.data = outcome.result
           ELSE /\ report.via = "exit_json" /\ report.data = outcome.result
                /\ report.changed = outcome.has_changed
C7_Witness ==
    /\ Finished /\ KeyPresent /\ params.fail_if_already_created
    /\ log[1].status = 409 /\ ReturnedIs(TRUE, FALSE) /\ report.via = "fail_json"
    /\ cps # << >>

\* C8: a request answered with a failure status (the 409 conflict of the key
\* creation aside) ends the invocation with a returned errored outcome that
\* carries the status code and the server's message.
C8_FailureReturned ==
    (Finished /\ ~Accepted(LastReq) /\ ~(IsKey /\ LastReq.status = 409)) =>
        /\ ReturnedIs(TRUE, FALSE)
        /\ outcome.result.kind = "status"
        /\ outcome.result.status = LastReq.status
        /\ (LastReq.json.kind = "message") => outcome.result.text = LastReq.json.message

\* C9: contact points: at most three requests, none repeated; present sends
\* POST, then PUT only after a 500, then GET only after a 202, and a POST
\* answered otherwise ends with (True, False, ..) at once; absent sends GET,
\* then DELETE only after a listing that holds the uid.
IsPrefix(a, b) == Len(a) <= Len(b) /\ \A i \in 1..Len(a) : a[i] = b[i]
C9_Sequence ==
    IsCp =>
        /\ Len(log) <= 3
        /\ \A i, j \in 1..Len(log) : i # j => log[i].verb # log[j].verb
        /\ CpPresent =>
               /\ IsPrefix(Verbs, <<"POST", "PUT", "GET">>)
               /\ (Len(log) >= 2) => log[1].status = 500
               /\ (Len(log) >= 3) => log[2].status = 202
               /\ (Len(log) >= 1 /\ log[1].status \notin {202, 500}) => (Finished /\ Len(log) = 1)
        /\ CpAbsent =>
               /\ IsPrefix(Verbs, <<"GET", "DELETE">>)
               /\ (Len(log) >= 2) => ListingHas(log[1], params.uid)
C9_PostFailureEnds ==
    (CpPresent /\ Len(log) >= 1 /\ log[1].status \notin {202, 500}) => ReturnedIs(TRUE, FALSE)
C9_Order == C9_Sequence /\ C9_PostFailureEnds

\* C10 as stated: an outcome with has_changed = False means that no POST, PUT
\* or DELETE of the invocation was accepted.
NoneAccepted == \A i \in 1..Len(log) : Mutating(log[i]) => ~Accepted(log[i])
C10_Original ==
    (Finished /\ outcome.ended = "returned" /\ ~outcome.has_changed) => NoneAccepted

\* C10 amended: an outcome with has_changed = False, other than the update
\* path's "Contact Point not found", means that no POST, PUT or DELETE of the
\* invocation was accepted.
C10_Faithful ==
    (Finished /\ outcome.ended = "returned" /\ ~outcome.has_changed
     /\ outcome.result # PayloadText("Contact Point not found")) => NoneAccepted
C10_Witness ==
    /\ Finished /\ ReturnedIs(TRUE, FALSE) /\ Len(log) >= 2
    /\ Mutating(LastReq) /\ ~Accepted(LastReq)
    /\ outcome.result.kind = "status"
    /\ keys # [n \in KeyNames |-> ""]

====
